---- MODULE Spec2Model ----
(***************************************************************************)
(* Bulk ingestion of Congress.gov records: BulkIngestor (bulk_ingest.py)   *)
(* driving DatabaseManager (database.py) against a paginated API.          *)
(*                                                                         *)
(* Representation of Python values:                                        *)
(*   - a dict is a function with a string domain (a record); a key that is *)
(*     absent from the dict is absent from the domain;                     *)
(*   - a str, and every scalar of a payload, is a string; None is "None";  *)
(*   - a list is a sequence; an Optional[int] is a sequence of length <= 1 *)
(*     (<< >> is None); a URL or endpoint string is the sequence of its    *)
(*     tokens, so that the empty string is << >>;                          *)
(*     a URL that is JSON null is the one-token sequence NullUrl;          *)
(*   - json.dumps(v) is the record dumps(v) wrapping v, SQL NULL in a JSON *)
(*     column is SqlNull.                                                  *)
(***************************************************************************)
EXTENDS Integers, Sequences, FiniteSets, TLC

\* ------------------------------------------------------------------ bounds
\* items on one page served by the API
MaxPageLen == 2
\* pages the API serves for one endpoint before its cursor ends
MaxServerPages == 2
\* invocations of ingest operations in one behaviour of SpecRuns
MaxRuns == 2

\* the longest sponsor list of a payload handed to a model class
MaxSponsors == 2

\* the longest laws list of a bill payload
MaxLaws == 2

\* calls of execute_sql in one behaviour of SpecSession
MaxStatements == 2

\* ------------------------------------------------------------ Python values
None == "None"

Has(d, k) == k \in DOMAIN d

\* dict.get(k) for a scalar-valued key
Get(d, k) == IF Has(d, k) THEN d[k] ELSE None

\* dict.get(k, []) for a list-valued key
GetList(d, k) == IF Has(d, k) THEN d[k] ELSE << >>

\* bool(v) of a scalar
Truthy(v) == v # None /\ v # ""

\* bool(d.get(k)) for a list-valued key
TruthyList(d, k) == Has(d, k) /\ d[k] # << >>

\* JSON null in the place of an object
JNull == [isnull |-> TRUE]

\* bool(d.get(k)) for an object-valued key
TruthyObj(d, k) == Has(d, k) /\ d[k] # JNull

SqlNull == [isnull |-> TRUE]

dumps(v) == [isnull |-> FALSE, json |-> v]

\* json.dumps(d.get(k)) if d.get(k) else None
DumpsObjOrNull(d, k) == IF TruthyObj(d, k) THEN dumps(d[k]) ELSE SqlNull

RECURSIVE Concat(_)
Concat(ss) == IF ss = << >> THEN << >> ELSE Head(ss) \o Concat(Tail(ss))

\* sequences over S of length 0..n
SeqUpTo(S, n) == UNION {[1..k -> S] : k \in 0..n}

\* ------------------------------------------------------------- the payloads
BaseUrl == "https://api.congress.gov/v3/"

\* "url": null
NullUrl == <<None>>

bill1 ==
  [congress |-> "118", type |-> "hr", number |-> "1", title |-> "T1",
   originChamber |-> "House", updateDate |-> "2024-01-01"]

\* the same natural key as bill1, every descriptive field changed
bill1b ==
  [congress |-> "118", type |-> "hr", number |-> "1", title |-> "T1b",
   originChamber |-> "Senate", updateDate |-> "2024-03-03",
   cosponsorsCount |-> "3",
   laws |-> <<[number |-> "118-5", type |-> "Public Law"],
              [number |-> "118-6", type |-> "Private Law"]>>]

\* an abbreviated list item: no title, a self link
bill2 ==
  [congress |-> "118", type |-> "hr", number |-> "2",
   updateDate |-> "2024-01-01", url |-> <<BaseUrl, "bill/118/hr/2">>]

\* no "type": the natural key is incomplete
bill3 ==
  [congress |-> "118", number |-> "3", title |-> "T3"]

BillPool == {bill1, bill1b, bill2, bill3}

member1 ==
  [bioguideId |-> "B000944", firstName |-> "Sherrod", lastName |-> "Brown",
   party |-> "D", state |-> "OH"]

member1b ==
  [bioguideId |-> "B000944", firstName |-> "Sherrod", lastName |-> "Brown",
   middleName |-> "C", party |-> "I", state |-> "OH"]

member2 ==
  [firstName |-> "No", lastName |-> "Id", party |-> "R", state |-> "TX"]

MemberPool == {member1, member1b, member2}

amendment1 ==
  [congress |-> "118", type |-> "hamdt", number |-> "1", purpose |-> "P1",
   chamber |-> "House",
   amendedBill |-> [congress |-> "118", type |-> "hr", number |-> "1"]]

amendment1b ==
  [congress |-> "118", type |-> "hamdt", number |-> "1", purpose |-> "P1b",
   chamber |-> "Senate", proposedDate |-> "2024-02-02",
   amendedBill |-> [congress |-> "118", type |-> "hr", number |-> "2"]]

\* "amendedBill": null
amendment2 ==
  [congress |-> "118", type |-> "samdt", number |-> "2", purpose |-> "P2",
   amendedBill |-> JNull]

\* no "number"
amendment3 ==
  [congress |-> "118", type |-> "samdt", purpose |-> "P3"]

AmendmentPool == {amendment1, amendment1b, amendment2, amendment3}

committee1 ==
  [systemCode |-> "hsag00", name |-> "Agriculture", chamber |-> "House",
   type |-> "Standing"]

committee1b ==
  [systemCode |-> "hsag00", name |-> "Agriculture Committee",
   chamber |-> "House", type |-> "Select", parentCommitteeCode |-> "hs00"]

committee2 ==
  [name |-> "No code", chamber |-> "Senate"]

CommitteePool == {committee1, committee1b, committee2}

Kinds == {"bills", "members", "amendments", "committees"}

Pool(k) ==
  CASE k = "bills" -> BillPool
    [] k = "members" -> MemberPool
    [] k = "amendments" -> AmendmentPool
    [] k = "committees" -> CommitteePool

\* ---------------------------------------------------------------- the store
\* ON CONFLICT (congress, bill_type, bill_number)
BillKey == {"congress", "bill_type", "bill_number"}

\* the columns of DO UPDATE SET of insert_bill, updated_at aside
BillUpdateCols ==
  {"title", "update_date", "update_date_including_text", "latest_action",
   "cosponsors_count", "actions", "summaries", "amendments", "texts",
   "titles", "is_law", "law_number", "law_type", "raw_data"}

\* the last element of the laws list
LastLaw(bill_data) == bill_data.laws[Len(bill_data.laws)]

\* bill_data.get('laws', [{}])[0], the list being non-empty
FirstLaw(bill_data) == bill_data.laws[1]

\* the params dictionary of insert_bill
BillParams(bill_data) ==
  [congress |-> Get(bill_data, "congress"),
   bill_type |-> Get(bill_data, "type"),
   bill_number |-> Get(bill_data, "number"),
   title |-> Get(bill_data, "title"),
   origin_chamber |-> Get(bill_data, "originChamber"),
   origin_chamber_code |-> Get(bill_data, "originChamberCode"),
   update_date |-> Get(bill_data, "updateDate"),
   update_date_including_text |-> Get(bill_data, "updateDateIncludingText"),
   introduced_date |-> Get(bill_data, "introducedDate"),
   constitution_authority_statement_text |->
     Get(bill_data, "constitutionAuthorityStatementText"),
   policy_area |-> DumpsObjOrNull(bill_data, "policyArea"),
   subjects |-> DumpsObjOrNull(bill_data, "subjects"),
   latest_action |-> DumpsObjOrNull(bill_data, "latestAction"),
   sponsors |-> dumps(GetList(bill_data, "sponsors")),
   cosponsors_count |->
     IF Has(bill_data, "cosponsorsCount") THEN bill_data.cosponsorsCount ELSE "0",
   committees |-> dumps(GetList(bill_data, "committees")),
   related_bills |-> dumps(GetList(bill_data, "relatedBills")),
   actions |-> dumps(GetList(bill_data, "actions")),
   summaries |-> dumps(GetList(bill_data, "summaries")),
   amendments |-> dumps(GetList(bill_data, "amendments")),
   texts |-> dumps(GetList(bill_data, "texts")),
   titles |-> dumps(GetList(bill_data, "titles")),
   law_number |->
     IF TruthyList(bill_data, "laws") THEN Get(FirstLaw(bill_data), "number") ELSE None,
   law_type |->
     IF TruthyList(bill_data, "laws") THEN Get(FirstLaw(bill_data), "type") ELSE None,
   is_law |-> TruthyList(bill_data, "laws"),
   raw_data |-> dumps(bill_data)]

\* ON CONFLICT (bioguide_id)
MemberKey == {"bioguide_id"}

MemberUpdateCols ==
  {"first_name", "last_name", "party", "state", "district", "terms"}

MemberParams(member_data) ==
  [bioguide_id |-> Get(member_data, "bioguideId"),
   first_name |-> Get(member_data, "firstName"),
   last_name |-> Get(member_data, "lastName"),
   middle_name |-> Get(member_data, "middleName"),
   suffix |-> Get(member_data, "suffix"),
   nickname |-> Get(member_data, "nickname"),
   party |-> Get(member_data, "party"),
   state |-> Get(member_data, "state"),
   district |-> Get(member_data, "district"),
   birth_year |-> Get(member_data, "birthYear"),
   death_year |-> Get(member_data, "deathYear"),
   terms |-> dumps(GetList(member_data, "terms"))]

\* ON CONFLICT (congress, amendment_type, amendment_number)
AmendmentKey == {"congress", "amendment_type", "amendment_number"}

AmendmentUpdateCols ==
  {"purpose", "description", "latest_action", "actions", "raw_data"}

\* amendment_data.get('amendedBill', {}): the default only when the key is absent
AmendedBill(amendment_data) ==
  IF Has(amendment_data, "amendedBill")
  THEN amendment_data.amendedBill
  ELSE [x \in {} |-> None]

\* building the params raises AttributeError: None has no .get
AmendmentParamsRaise(amendment_data) == AmendedBill(amendment_data) = JNull

AmendmentParams(amendment_data) ==
  [congress |-> Get(amendment_data, "congress"),
   amendment_type |-> Get(amendment_data, "type"),
   amendment_number |-> Get(amendment_data, "number"),
   bill_congress |-> Get(AmendedBill(amendment_data), "congress"),
   bill_type |-> Get(AmendedBill(amendment_data), "type"),
   bill_number |-> Get(AmendedBill(amendment_data), "number"),
   purpose |-> Get(amendment_data, "purpose"),
   description |-> Get(amendment_data, "description"),
   chamber |-> Get(amendment_data, "chamber"),
   amendment_to_amendment |-> DumpsObjOrNull(amendment_data, "amendedAmendment"),
   sponsors |-> dumps(GetList(amendment_data, "sponsors")),
   cosponsors |-> dumps(GetList(amendment_data, "cosponsors")),
   proposed_date |-> Get(amendment_data, "proposedDate"),
   submitted_date |-> Get(amendment_data, "submittedDate"),
   latest_action |-> DumpsObjOrNull(amendment_data, "latestAction"),
   actions |-> dumps(GetList(amendment_data, "actions")),
   raw_data |-> dumps(amendment_data)]

\* ON CONFLICT (system_code)
CommitteeKey == {"system_code"}

CommitteeUpdateCols == {"name", "chamber", "type", "subcommittees"}

CommitteeParams(committee_data) ==
  [system_code |-> Get(committee_data, "systemCode"),
   name |-> Get(committee_data, "name"),
   chamber |-> Get(committee_data, "chamber"),
   type |-> Get(committee_data, "type"),
   subcommittees |-> dumps(GetList(committee_data, "subcommittees")),
   parent_committee_system_code |-> Get(committee_data, "parentCommitteeCode"),
   is_subcommittee |->
     IF Has(committee_data, "isCurrent") THEN committee_data.isCurrent ELSE "False"]

KeyCols(k) ==
  CASE k = "bills" -> BillKey
    [] k = "members" -> MemberKey
    [] k = "amendments" -> AmendmentKey
    [] k = "committees" -> CommitteeKey

UpdateCols(k) ==
  CASE k = "bills" -> BillUpdateCols
    [] k = "members" -> MemberUpdateCols
    [] k = "amendments" -> AmendmentUpdateCols
    [] k = "committees" -> CommitteeUpdateCols

Params(k, data) ==
  CASE k = "bills" -> BillParams(data)
    [] k = "members" -> MemberParams(data)
    [] k = "amendments" -> AmendmentParams(data)
    [] k = "committees" -> CommitteeParams(data)

\* building the params of insert_<kind> raises before the statement runs
ParamsRaise(k, data) == k = "amendments" /\ AmendmentParamsRaise(data)

\* the columns the store fills in itself
MetaCols == {"id", "created_at", "updated_at"}

\* the conflict target matches every row
HitAnyRow(table, keyCols, params) == table

\* the rows of the table that bear the natural key of params
Hit(table, keyCols, params) ==
  {r \in table : \A c \in keyCols : r[c] = params[c]}

\* the statement is refused: a natural-key column would be NULL
StoreRejects(keyCols, params) == \E c \in keyCols : params[c] = None

\* INSERT ... VALUES (params): a new row, its id from the table's sequence
InsertRow(table, params, t) ==
  [c \in DOMAIN params \cup MetaCols |->
     IF c = "id" THEN Cardinality(table) + 1
     ELSE IF c \in {"created_at", "updated_at"} THEN t
     ELSE params[c]]

\* the update also stamps created_at
UpdateRowStampsCreated(old, updCols, params, t) ==
  [c \in DOMAIN old |->
     IF c \in updCols THEN params[c]
     ELSE IF c \in {"updated_at", "created_at"} THEN t
     ELSE old[c]]

\* DO UPDATE SET c = EXCLUDED.c for c in updCols, updated_at = CURRENT_TIMESTAMP
UpdateRow(old, updCols, params, t) ==
  [c \in DOMAIN old |->
     IF c \in updCols THEN params[c]
     ELSE IF c = "updated_at" THEN t
     ELSE old[c]]

\* a plain INSERT, without the ON CONFLICT clause
UpsertAlwaysInserts(table, keyCols, updCols, params, t) ==
  [table |-> table \cup {InsertRow(table, params, t)},
   id |-> Cardinality(table) + 1]

\* INSERT ... ON CONFLICT (keyCols) DO UPDATE SET ... RETURNING id, at time t:
\* the table afterwards and the id returned
Upsert(table, keyCols, updCols, params, t) ==
  IF Hit(table, keyCols, params) = {}
  THEN [table |-> table \cup {InsertRow(table, params, t)},
        id |-> Cardinality(table) + 1]
  ELSE LET old == CHOOSE r \in Hit(table, keyCols, params) : TRUE
       IN [table |-> (table \ {old}) \cup {UpdateRow(old, updCols, params, t)},
           id |-> old.id]

\* a refused statement empties the table
insert_entity_undoes(table, k, data, t) ==
  IF StoreRejects(KeyCols(k), Params(k, data))
  THEN [table |-> {}, ret |-> << >>]
  ELSE LET u == Upsert(table, KeyCols(k), UpdateCols(k), Params(k, data), t)
       IN [table |-> u.table, ret |-> <<u.id>>]

\* execute_sql of the upsert inside insert_<kind>: result[0]['id'] if the
\* statement ran, and the exception caught and None returned if it raised
insert_entity(table, k, data, t) ==
  IF StoreRejects(KeyCols(k), Params(k, data))
  THEN [table |-> table, ret |-> << >>]
  ELSE LET u == Upsert(table, KeyCols(k), UpdateCols(k), Params(k, data), t)
       IN [table |-> u.table, ret |-> <<u.id>>]

\* `if bill_id:` of the ingest loops
TruthyId(ret) == ret # << >> /\ ret[1] # 0

\* ------------------------------------------------------------ the sync log
\* log_sync: INSERT INTO api_sync_log ... RETURNING id, at time t
log_sync(log, endpoint_name, parameters, t) ==
  Append(log,
    [id |-> Len(log) + 1,
     endpoint |-> endpoint_name,
     sync_type |-> "bulk",
     started_at |-> t,
     status |-> "running",
     records_processed |-> 0,
     records_created |-> 0,
     records_updated |-> 0,
     records_failed |-> 0,
     error_message |-> None,
     parameters |-> parameters,
     completed_at |-> << >>])

\* the UPDATE without its WHERE clause
update_every_sync_log(log, id, status, processed, created, updated, failed, msg, t) ==
  [i \in DOMAIN log |->
     [log[i] EXCEPT !.status = status,
                    !.completed_at = <<t>>,
                    !.records_processed = processed,
                    !.records_created = created,
                    !.records_updated = updated,
                    !.records_failed = failed,
                    !.error_message = msg]]

\* update_sync_log: UPDATE api_sync_log SET ... WHERE id = :log_id, at time t
update_sync_log(log, id, status, processed, created, updated, failed, msg, t) ==
  [i \in DOMAIN log |->
     IF log[i].id = id
     THEN [log[i] EXCEPT !.status = status,
                         !.completed_at = <<t>>,
                         !.records_processed = processed,
                         !.records_created = created,
                         !.records_updated = updated,
                         !.records_failed = failed,
                         !.error_message = msg]
     ELSE log[i]]

\* ------------------------------------------------------------ the transport
\* the keys _extract_items tries, in its order
ItemKeys ==
  <<"bills", "members", "amendments", "committees", "nominations",
    "treaties", "reports", "hearings", "items">>

\* _extract_items: the list under the first of ItemKeys the body holds
extract_items(data) ==
  LET present == SelectSeq(ItemKeys, LAMBDA key : key \in DOMAIN data)
  IN IF present = << >> THEN << >> ELSE data[present[1]]

\* data.get('pagination', {}).get('next')
next_of(data) ==
  IF Has(data, "pagination") /\ Has(data.pagination, "next")
  THEN data.pagination.next
  ELSE << >>

\* f"{endpoint}?limit={limit}&offset=0", limit = 250
first_url(endpoint) == endpoint \o <<"?", "limit=250", "&", "offset=0">>

\* the cap is not looked at
loop_cond_ignores_cap(url, pg, cap) == url # << >>

\* the loop continues one page past the cap
loop_cond_inclusive(url, pg, cap) == url # << >> /\ (cap = << >> \/ pg <= cap[1])

\* the condition of the while loop of _fetch_paginated
loop_cond(url, pg, cap) == url # << >> /\ (cap = << >> \/ pg < cap[1])

\* nothing is returned
return_nothing(acc) == << >>

\* return all_items
return_all_items(acc) == acc

\* the accumulator is replaced by the page
extend_replaces(acc, its) == its

\* all_items.extend(items)
extend(acc, its) == acc \o its

\* the cursor the API hands out with its n-th page of an endpoint
Cursor(endpoint, n) == endpoint \o <<"?">> \o [i \in 1..n |-> "next"]

\* the body of a page of items, with or without a next cursor
PageBody(k, its, cursor) ==
  IF cursor = << >>
  THEN (k :> its) @@ ("pagination" :> [count |-> "n"])
  ELSE (k :> its) @@ ("pagination" :> [count |-> "n", next |-> cursor])

ErrorBody == [error |-> "server error"]

Raised(msg) == [raised |-> TRUE, msg |-> msg]

Returned(status, data) == [raised |-> FALSE, status |-> status, data |-> data]

\* what client.get may answer to the n-th page request of an endpoint, the
\* API serving at most maxPages pages of at most maxLen items
PageResponses(k, endpoint, n, maxLen, maxPages) ==
  {Raised("connection reset"), Returned(500, ErrorBody)}
    \cup {Returned(200, PageBody(k, its, << >>)) : its \in SeqUpTo(Pool(k), maxLen)}
    \cup {Returned(200, PageBody(k, its, Cursor(endpoint, n))) :
            its \in IF n < maxPages THEN SeqUpTo(Pool(k), maxLen) ELSE {}}

\* the fuller projection the detail endpoint serves for a list item: the
\* item without its self link, with the fields only the detail carries
DetailOf(k, item) ==
  IF k = "bills"
  THEN [f \in (DOMAIN item \ {"url"}) \cup {"title", "updateDate", "sponsors"} |->
          IF f = "title" THEN "Detail title"
          ELSE IF f = "updateDate" THEN "2024-02-02"
          ELSE IF f = "sponsors" THEN <<[bioguideId |-> "B000944"]>>
          ELSE item[f]]
  ELSE [f \in (DOMAIN item \ {"url"}) \cup {"birthYear", "party"} |->
          IF f = "birthYear" THEN "1952"
          ELSE IF f = "party" THEN "Democratic"
          ELSE item[f]]

\* the key of the entity object in a detail body
EntityKey(k) == IF k = "bills" THEN "bill" ELSE "member"

\* what client.get may answer to a detail request for item
DetailResponses(k, item) ==
  {Raised("read timeout"),
   Returned(404, ErrorBody),
   Returned(200, (EntityKey(k) :> DetailOf(k, item)))}

\* ---------------------------------------------------------- the data models
\* A value of a payload handed to a model class carries its Python type: an
\* int, a str, None, a list, or a dict kept as it is.
JInt(v) == [ty |-> "int", v |-> v]

JStr(v) == [ty |-> "str", v |-> v]

JList(xs) == [ty |-> "list", v |-> xs]

PyNone == [ty |-> "none"]

\* the strings the validation of an int field reads as an integer
Numerals == {"0", "7", "25", "118", "1234", "1952"}

\* the fields of each model class: <<name, alias, type>>, the type one of int,
\* str, any (a dict or a list of dicts) and the class of the elements of a list
ActionFields ==
  {<<"action_date", "actionDate", "str">>,
   <<"text", "text", "str">>,
   <<"type", "type", "str">>,
   <<"action_code", "actionCode", "str">>,
   <<"source_system", "sourceSystem", "any">>,
   <<"committees", "committees", "any">>}

SponsorFields ==
  {<<"bioguide_id", "bioguideId", "str">>,
   <<"full_name", "fullName", "str">>,
   <<"first_name", "firstName", "str">>,
   <<"last_name", "lastName", "str">>,
   <<"middle_name", "middleName", "str">>,
   <<"party", "party", "str">>,
   <<"state", "state", "str">>,
   <<"district", "district", "int">>,
   <<"is_by_request", "isByRequest", "str">>}

CommitteeFields ==
  {<<"system_code", "systemCode", "str">>,
   <<"name", "name", "str">>,
   <<"chamber", "chamber", "str">>,
   <<"type", "type", "str">>,
   <<"url", "url", "str">>,
   <<"activities", "activities", "any">>,
   <<"subcommittees", "subcommittees", "any">>}

BillFields ==
  {<<"congress", "congress", "int">>,
   <<"bill_type", "type", "str">>,
   <<"bill_number", "number", "int">>,
   <<"title", "title", "str">>,
   <<"origin_chamber", "originChamber", "str">>,
   <<"origin_chamber_code", "originChamberCode", "str">>,
   <<"update_date", "updateDate", "str">>,
   <<"update_date_including_text", "updateDateIncludingText", "str">>,
   <<"introduced_date", "introducedDate", "str">>,
   <<"constitution_authority_statement_text", "constitutionAuthorityStatementText", "str">>,
   <<"policy_area", "policyArea", "any">>,
   <<"subjects", "subjects", "any">>,
   <<"latest_action", "latestAction", "any">>,
   <<"sponsors", "sponsors", "Sponsor">>,
   <<"cosponsors", "cosponsors", "Sponsor">>,
   <<"cosponsors_count", "cosponsorsCount", "int">>,
   <<"committees", "committees", "Committee">>,
   <<"related_bills", "relatedBills", "any">>,
   <<"actions", "actions", "Action">>,
   <<"summaries", "summaries", "any">>,
   <<"amendments", "amendments", "any">>,
   <<"texts", "texts", "any">>,
   <<"titles", "titles", "any">>,
   <<"laws", "laws", "any">>,
   <<"url", "url", "str">>}

MemberFields ==
  {<<"bioguide_id", "bioguideId", "str">>,
   <<"first_name", "firstName", "str">>,
   <<"last_name", "lastName", "str">>,
   <<"middle_name", "middleName", "str">>,
   <<"suffix", "suffix", "str">>,
   <<"nickname", "nickname", "str">>,
   <<"party", "party", "str">>,
   <<"state", "state", "str">>,
   <<"district", "district", "int">>,
   <<"birth_year", "birthYear", "int">>,
   <<"death_year", "deathYear", "int">>,
   <<"terms", "terms", "any">>,
   <<"sponsored_legislation", "sponsoredLegislation", "any">>,
   <<"cosponsored_legislation", "cosponsoredLegislation", "any">>,
   <<"url", "url", "str">>}

AmendmentFields ==
  {<<"congress", "congress", "int">>,
   <<"amendment_type", "type", "str">>,
   <<"amendment_number", "number", "int">>,
   <<"purpose", "purpose", "str">>,
   <<"description", "description", "str">>,
   <<"chamber", "chamber", "str">>,
   <<"latest_action", "latestAction", "any">>,
   <<"sponsors", "sponsors", "Sponsor">>,
   <<"cosponsors", "cosponsors", "Sponsor">>,
   <<"proposed_date", "proposedDate", "str">>,
   <<"submitted_date", "submittedDate", "str">>,
   <<"actions", "actions", "Action">>,
   <<"amendment_to_amendment", "amendedAmendment", "any">>,
   <<"url", "url", "str">>}

ModelClasses == {"Bill", "Member", "Amendment", "Committee", "Sponsor"}

Fields(cls) ==
  CASE cls = "Action" -> ActionFields
    [] cls = "Sponsor" -> SponsorFields
    [] cls = "Committee" -> CommitteeFields
    [] cls = "Bill" -> BillFields
    [] cls = "Member" -> MemberFields
    [] cls = "Amendment" -> AmendmentFields

\* the fields declared without a default, by name
RequiredFields(cls) ==
  CASE cls = "Committee" -> {"system_code", "name"}
    [] cls = "Bill" -> {"congress", "bill_type", "bill_number"}
    [] cls = "Member" -> {"bioguide_id"}
    [] cls = "Amendment" -> {"congress", "amendment_type", "amendment_number"}
    [] OTHER -> {}

\* the default of a field: Field(0, ...) for cosponsors_count, None otherwise
DefaultOf(cls, name) ==
  IF cls = "Bill" /\ name = "cosponsors_count" THEN JInt("0") ELSE PyNone

\* the outcome of a constructor: the object built, or a validation error
Built(obj) == [ok |-> TRUE, obj |-> obj]

ValidationError == [ok |-> FALSE]

RECURSIVE Construct(_, _)

\* the value is stored as it was given
ValidatedAsGiven(cls, f, x) == Built(x)

\* the validation of the value x given for the field f of cls: None for a
\* field with a default; an int, or a string that reads as one, for an int
\* field; a str for a str field; element by element for a list of models
Validated(cls, f, x) ==
  IF x = PyNone
  THEN IF f[1] \in RequiredFields(cls) THEN ValidationError ELSE Built(PyNone)
  ELSE CASE f[3] = "int" ->
              IF x.ty = "int" THEN Built(x)
              ELSE IF x.ty = "str" /\ x.v \in Numerals THEN Built(JInt(x.v))
              ELSE ValidationError
         [] f[3] = "str" -> IF x.ty = "str" THEN Built(x) ELSE ValidationError
         [] f[3] = "any" -> Built(x)
         [] OTHER ->
              IF x.ty # "list" THEN ValidationError
              ELSE LET parsed == [i \in DOMAIN x.v |-> Construct(f[3], x.v[i])]
                   IN IF \E i \in DOMAIN parsed : ~parsed[i].ok
                      THEN ValidationError
                      ELSE Built(JList([i \in DOMAIN parsed |-> parsed[i].obj]))

\* cls(**payload): each field is read under its alias or, populate_by_name
\* being set, under its name; a field not given takes its default, a
\* required field not given is a validation error; keys that are not fields
\* are ignored
Construct(cls, payload) ==
  LET val(f) ==
        IF f[2] \in DOMAIN payload THEN Validated(cls, f, payload[f[2]])
        ELSE IF f[1] \in DOMAIN payload THEN Validated(cls, f, payload[f[1]])
        ELSE IF f[1] \in RequiredFields(cls) THEN ValidationError
        ELSE Built(DefaultOf(cls, f[1]))
      field(n) == CHOOSE f \in Fields(cls) : f[1] = n
  IN IF \E f \in Fields(cls) : ~val(f).ok
     THEN ValidationError
     ELSE Built([n \in {f[1] : f \in Fields(cls)} |-> val(field(n)).obj])

\* ------------------------------------------------------------------- state
VARIABLES
  db,         \* the entity tables: db[k] is the set of rows of kind k
  sync_log,   \* the rows of api_sync_log, in insertion order
  now,        \* the store's clock: one tick per statement
  pc,         \* where the ingestor is: "idle", "fetch", "process"
  kind,       \* the entity kind of the current invocation
  chamber,    \* ingest_committees: the index of the chamber being ingested
  endpoint,   \* the endpoint of the current fetch
  max_pages,  \* the page cap of the current invocation
  log_id,     \* the id log_sync returned to the current invocation
  stats,      \* self.stats
  all_items,  \* _fetch_paginated: the accumulator
  page,       \* _fetch_paginated: pages fetched
  next_url,   \* _fetch_paginated: the URL of the next request
  items,      \* the list the ingest loop iterates over
  idx,        \* the position of the ingest loop in items
  requests,   \* the URLs passed to client.get by the current invocation
  waits,      \* the calls of _rate_limit by the current invocation
  served,     \* the answers of client.get to the current fetch, in order
  last,       \* the last item handled: its input, its path, its outcome
  runs,       \* invocations started
  returned,   \* the stats returned by the finished invocations, in order
  calls,      \* the calls made by the current invocation, in order
  escaped,    \* the messages of the exceptions that reached the callers
  built,      \* the last model object constructed: class, payload, outcome
  session     \* execute_sql: the session of the statement under way or last run

vars ==
  <<db, sync_log, now, pc, kind, chamber, endpoint, max_pages, log_id, stats,
    all_items, page, next_url, items, idx, requests, waits, served, last,
    runs, returned, calls, escaped, built, session>>

\* client.get without the sleep before it
UnlimitedGet(by, scope, ok) == <<[op |-> "get", by |-> by, scope |-> scope, ok |-> ok]>>

\* a call of op made by the function by, in the chamber scope of the
\* invocation; ok is false when the call raised
Call(op, by, scope, ok) == [op |-> op, by |-> by, scope |-> scope, ok |-> ok]

\* time.sleep(self.rate_limit_delay), then client.get
RateLimitedGet(by, scope, ok) ==
  <<Call("sleep", by, scope, TRUE), Call("get", by, scope, ok)>>

\* the dictionary self.stats is reset to
ZeroStats ==
  [processed |-> 0, created |-> 0, updated |-> 0, failed |-> 0, errors |-> << >>]

NoLast ==
  [item |-> [x \in {} |-> None], data |-> [x \in {} |-> None],
   detail |-> "none", existed |-> FALSE, rejected |-> FALSE, ret |-> << >>,
   exc |-> << >>]

\* no model object has been constructed
NoBuilt == [cls |-> "none"]

\* execute_sql has not been called on its own
NoSession == [at |-> "none", n |-> 0]

Init ==
  /\ db = [k \in Kinds |-> {}]
  /\ sync_log = << >>
  /\ now = 1
  /\ pc = "idle"
  /\ kind = "bills"
  /\ chamber = 1
  /\ endpoint = << >>
  /\ max_pages = << >>
  /\ log_id = 0
  /\ stats = ZeroStats
  /\ all_items = << >>
  /\ page = 0
  /\ next_url = << >>
  /\ items = << >>
  /\ idx = 1
  /\ requests = << >>
  /\ waits = 0
  /\ served = << >>
  /\ last = NoLast
  /\ runs = 0
  /\ returned = << >>
  /\ calls = << >>
  /\ escaped = << >>
  /\ built = NoBuilt
  /\ session = NoSession

\* ------------------------------------------------------------ the ingestor
\* "&".join(params), each of the params a sequence of tokens
RECURSIVE JoinAmp(_)
JoinAmp(ps) ==
  IF ps = << >> THEN << >>
  ELSE IF Len(ps) = 1 THEN ps[1]
  ELSE ps[1] \o <<"&">> \o JoinAmp(Tail(ps))

\* ingest_bills: the endpoint built from the filters
BillEndpoint(congress, bill_type, from_date, to_date) ==
  LET base ==
        IF Truthy(congress) /\ Truthy(bill_type)
        THEN <<"bill", "/", congress, "/", bill_type>>
        ELSE IF Truthy(congress) THEN <<"bill", "/", congress>>
        ELSE <<"bill">>
      params ==
        (IF Truthy(from_date) THEN <<(<<"fromDateTime=", from_date>>)>> ELSE << >>)
          \o (IF Truthy(to_date) THEN <<(<<"toDateTime=", to_date>>)>> ELSE << >>)
  IN IF Truthy(from_date) \/ Truthy(to_date)
     THEN base \o <<"?">> \o JoinAmp(params)
     ELSE base

\* the house alone
OnlyHouse == <<"house">>

\* for chamber in ['house', 'senate']
Chambers == <<"house", "senate">>

\* the endpoint of each ingest operation; ch is the chamber of ingest_committees
Endpoint(k, args, ch) ==
  CASE k = "bills" ->
         BillEndpoint(args.congress, args.bill_type, args.from_date, args.to_date)
    [] k = "members" ->
         IF Truthy(args.congress) THEN <<"member/congress", "/", args.congress>>
         ELSE <<"member">>
    [] k = "amendments" ->
         IF Truthy(args.congress) THEN <<"amendment", "/", args.congress>>
         ELSE <<"amendment">>
    [] k = "committees" -> <<"committee", "/", Chambers[ch]>>

\* the parameters each ingest operation passes to log_sync
LogParameters(k, args) ==
  CASE k = "bills" ->
         dumps([congress |-> args.congress, bill_type |-> args.bill_type])
    [] k = "members" -> dumps([congress |-> args.congress])
    [] k = "amendments" -> dumps([congress |-> args.congress])
    [] k = "committees" -> SqlNull

\* an invocation with no filter
NoArgs ==
  [congress |-> None, bill_type |-> None, from_date |-> None, to_date |-> None]

\* the filters callers pass
ArgsOf(k) ==
  CASE k = "bills" ->
         {[NoArgs EXCEPT !.congress = "118", !.bill_type = "hr"],
          [NoArgs EXCEPT !.from_date = "2024-01-01T00:00:00Z"]}
    [] k = "committees" -> {NoArgs}
    [] OTHER -> {[NoArgs EXCEPT !.congress = "118"]}

\* the page caps callers pass: None, or a number up to the pages the API has
Caps == {<< >>} \cup {<<c>> : c \in 0..MaxServerPages}

\* the 'url' of a list item with the API base removed:
\* bill_data.get('url', '').replace('https://api.congress.gov/v3/', '')
SelfPath(item) ==
  IF Has(item, "url") THEN SelectSeq(item.url, LAMBDA tok : tok # BaseUrl) ELSE << >>

\* building the detail endpoint raises AttributeError: bill_data.get('url', '')
\* is None when the key is there with null, and None has no .replace
DetailRaises(k, item) ==
  /\ k = "bills"
  /\ ~Has(item, "title") \/ ~Truthy(Get(item, "title"))
  /\ Has(item, "url")
  /\ item.url = NullUrl

\* no item is enriched
NoDetailEndpoint(k, item) == << >>

\* the detail endpoint the ingest loop asks for, << >> when it asks for none
DetailEndpoint(k, item) ==
  CASE k = "bills" ->
         IF ~Has(item, "title") \/ ~Truthy(Get(item, "title"))
         THEN SelfPath(item)
         ELSE << >>
    [] k = "members" ->
         IF Truthy(Get(item, "bioguideId"))
         THEN <<"member/", item.bioguideId>>
         ELSE << >>
    [] OTHER -> << >>

\* detail_data.get('bill', bill_data)
Enriched(k, item, data) ==
  IF Has(data, EntityKey(k)) THEN data[EntityKey(k)] ELSE item

\* str(e) of the exception execute_sql lets through when the store fails
StoreError == "server closed the connection unexpectedly"

\* the one dictionary is emptied and refilled: every caller holds that object
reset_stats_in_place(rets) ==
  [stats |-> ZeroStats, returned |-> [i \in DOMAIN rets |-> ZeroStats]]

\* self.stats = {'processed': 0, ...}: a new dictionary is bound to the field;
\* the dictionaries rets returned before are other objects and stay as they are
rebind_stats(rets) == [stats |-> ZeroStats, returned |-> rets]

\* _fetch_paginated is entered: its locals, and where control goes
BeginFetch(ep, cap) ==
  /\ all_items' = << >>
  /\ page' = 0
  /\ next_url' = first_url(ep)
  /\ served' = << >>
  /\ items' = << >>
  /\ idx' = 1
  /\ pc' = IF loop_cond(first_url(ep), 0, cap) THEN "fetch" ELSE "process"

\* an ingest operation up to its first page request: the stats are reset, the
\* endpoint is built, the run is logged, _fetch_paginated is entered
StartIngest(k, args, cap) ==
  /\ pc = "idle"
  /\ runs' = runs + 1
  /\ kind' = k
  /\ max_pages' = cap
  /\ stats' = rebind_stats(returned).stats
  /\ returned' = rebind_stats(returned).returned
  /\ chamber' = 1
  /\ endpoint' = Endpoint(k, args, 1)
  /\ sync_log' = log_sync(sync_log, k, LogParameters(k, args), now)
  /\ log_id' = Len(sync_log) + 1
  /\ now' = now + 1
  /\ requests' = << >>
  /\ waits' = 0
  /\ last' = NoLast
  /\ calls' = <<Call("log_sync", "ingest", 1, TRUE)>>
  /\ BeginFetch(Endpoint(k, args, 1), cap)
  /\ UNCHANGED <<built, session, db, escaped>>

\* an ingest operation whose log_sync raises: the statement is rolled back
\* and, log_sync standing before the try, the exception reaches the caller
StartIngestRaises(k, args, cap) ==
  /\ pc = "idle"
  /\ runs' = runs + 1
  /\ kind' = k
  /\ max_pages' = cap
  /\ stats' = rebind_stats(returned).stats
  /\ returned' = rebind_stats(returned).returned
  /\ chamber' = 1
  /\ endpoint' = Endpoint(k, args, 1)
  /\ log_id' = 0
  /\ requests' = << >>
  /\ waits' = 0
  /\ last' = NoLast
  /\ calls' = <<Call("log_sync", "ingest", 1, FALSE)>>
  /\ escaped' = Append(escaped, StoreError)
  /\ all_items' = << >>
  /\ page' = 0
  /\ next_url' = << >>
  /\ served' = << >>
  /\ items' = << >>
  /\ idx' = 1
  /\ UNCHANGED <<built, session, db, sync_log, now, pc>>

\* a failed page request is not caught: it reaches the outer except branch of
\* the ingest operation, which finalizes the run as failed and returns
FetchPageFromPropagates(resps) ==
  /\ pc = "fetch"
  /\ \E resp \in resps :
       /\ waits' = waits + 1
       /\ requests' = Append(requests, next_url)
       /\ served' = Append(served, resp)
       /\ IF resp.raised \/ resp.status # 200
          THEN /\ calls' = Append(calls \o RateLimitedGet("_fetch_paginated", chamber,
                                                          ~resp.raised),
                                  Call("update_sync_log", "ingest", chamber, TRUE))
               /\ sync_log' = update_sync_log(sync_log, log_id, "failed", 0, 0, 0, 0,
                                              "connection reset", now)
               /\ now' = now + 1
               /\ returned' = Append(returned, stats)
               /\ pc' = "idle"
               /\ UNCHANGED <<all_items, page, next_url, items, idx>>
          ELSE /\ calls' = calls \o RateLimitedGet("_fetch_paginated", chamber, TRUE)
               /\ all_items' = extend(all_items, extract_items(resp.data))
               /\ next_url' = next_of(resp.data)
               /\ page' = page + 1
               /\ UNCHANGED <<sync_log, now, returned>>
               /\ IF loop_cond(next_of(resp.data), page + 1, max_pages)
                  THEN UNCHANGED <<pc, items, idx>>
                  ELSE /\ pc' = "process"
                       /\ items' =
                            return_all_items(extend(all_items, extract_items(resp.data)))
                       /\ idx' = 1
  /\ UNCHANGED <<built, session, db, kind, chamber, endpoint, max_pages, log_id, stats,
                 last, runs, escaped>>

\* one iteration of the while loop of _fetch_paginated, and the return of
\* _fetch_paginated when the loop ends with it, client.get answering with one
\* of resps
FetchPageFrom(resps) ==
  /\ pc = "fetch"
  /\ \E resp \in resps :
       /\ waits' = waits + 1
       /\ requests' = Append(requests, next_url)
       /\ served' = Append(served, resp)
       /\ calls' = calls \o RateLimitedGet("_fetch_paginated", chamber, ~resp.raised)
       /\ IF resp.raised \/ resp.status # 200
          THEN /\ pc' = "process"
               /\ items' = return_all_items(all_items)
               /\ idx' = 1
               /\ UNCHANGED <<all_items, page, next_url>>
          ELSE /\ all_items' = extend(all_items, extract_items(resp.data))
               /\ next_url' = next_of(resp.data)
               /\ page' = page + 1
               /\ IF loop_cond(next_of(resp.data), page + 1, max_pages)
                  THEN UNCHANGED <<pc, items, idx>>
                  ELSE /\ pc' = "process"
                       /\ items' =
                            return_all_items(extend(all_items, extract_items(resp.data)))
                       /\ idx' = 1
  /\ UNCHANGED <<built, session, db, sync_log, now, kind, chamber, endpoint, max_pages,
                 log_id, stats, last, runs, returned, escaped>>

\* the iteration against an API that serves at most maxPages pages of at most
\* maxLen items
FetchPage(maxLen, maxPages) ==
  FetchPageFrom(PageResponses(kind, endpoint, Len(served) + 1, maxLen, maxPages))

\* the except branch of the ingest loop
ItemFailed(msg) ==
  stats' = [stats EXCEPT !.failed = @ + 1, !.errors = Append(@, msg)]

\* created and updated are both incremented
ItemCountedBoth(ret) ==
  stats' = [stats EXCEPT !.created = @ + 1, !.updated = @ + 1, !.processed = @ + 1]

\* the end of the try branch of the ingest loop
ItemCounted(ret) ==
  stats' = [stats EXCEPT !.created = IF TruthyId(ret) THEN @ + 1 ELSE @,
                         !.updated = IF TruthyId(ret) THEN @ ELSE @ + 1,
                         !.processed = @ + 1]

\* insert_<kind>(data) called by the ingest loop for item, after a detail
\* request answered how (detail)
InsertItem(item, data, how) ==
  IF ParamsRaise(kind, data)
  THEN /\ ItemFailed("'NoneType' object has no attribute 'get'")
       /\ last' = [item |-> item, data |-> data, detail |-> how,
                   existed |-> FALSE, rejected |-> FALSE, ret |-> << >>,
                   exc |-> <<"'NoneType' object has no attribute 'get'">>]
       /\ UNCHANGED <<db, now>>
  ELSE LET r == insert_entity(db[kind], kind, data, now)
       IN /\ db' = [db EXCEPT ![kind] = r.table]
          /\ now' = now + 1
          /\ ItemCounted(r.ret)
          /\ last' = [item |-> item, data |-> data, detail |-> how,
                      existed |->
                        Hit(db[kind], KeyCols(kind), Params(kind, data)) # {},
                      rejected |-> StoreRejects(KeyCols(kind), Params(kind, data)),
                      ret |-> r.ret, exc |-> << >>]

\* one iteration of the ingest loop: the item at idx
ProcessItem ==
  /\ pc = "process"
  /\ idx <= Len(items)
  /\ idx' = idx + 1
  /\ LET item == items[idx]
     IN IF DetailRaises(kind, item)
        THEN /\ ItemFailed("'NoneType' object has no attribute 'replace'")
             /\ last' = [item |-> item, data |-> item, detail |-> "none",
                         existed |-> FALSE, rejected |-> FALSE, ret |-> << >>,
                         exc |-> <<"'NoneType' object has no attribute 'replace'">>]
             /\ calls' = Append(calls, Call("replace", "ingest", chamber, FALSE))
             /\ UNCHANGED <<db, now, requests, waits>>
        ELSE IF DetailEndpoint(kind, item) = << >>
        THEN /\ InsertItem(item, item, "none")
             /\ calls' = Append(calls, Call("insert", "ingest", chamber,
                                            ~ParamsRaise(kind, item)))
             /\ UNCHANGED <<requests, waits>>
        ELSE /\ waits' = waits + 1
             /\ requests' = Append(requests, DetailEndpoint(kind, item))
             /\ \E resp \in DetailResponses(kind, item) :
                  IF resp.raised
                  THEN /\ ItemFailed(resp.msg)
                       /\ last' = [item |-> item, data |-> item,
                                   detail |-> "raised", existed |-> FALSE,
                                   rejected |-> FALSE, ret |-> << >>,
                                   exc |-> <<resp.msg>>]
                       /\ calls' = calls \o RateLimitedGet("ingest", chamber, FALSE)
                       /\ UNCHANGED <<db, now>>
                  ELSE /\ InsertItem(item, Enriched(kind, item, resp.data),
                                     IF resp.status = 200 THEN "ok" ELSE "error")
                       /\ calls' =
                            Append(calls \o RateLimitedGet("ingest", chamber, TRUE),
                                   Call("insert", "ingest", chamber,
                                        ~ParamsRaise(kind,
                                                     Enriched(kind, item, resp.data))))
  /\ UNCHANGED <<built, session, sync_log, pc, kind, chamber, endpoint, max_pages,
                 log_id, all_items, page, next_url, items, served, runs, returned,
                 escaped>>

\* ingest_committees: the house loop is over, the senate fetch is entered
NextChamber ==
  /\ pc = "process"
  /\ idx > Len(items)
  /\ kind = "committees"
  /\ chamber < Len(Chambers)
  /\ chamber' = chamber + 1
  /\ endpoint' = Endpoint(kind, NoArgs, chamber + 1)
  /\ BeginFetch(Endpoint(kind, NoArgs, chamber + 1), max_pages)
  /\ UNCHANGED <<built, session, db, sync_log, now, kind, max_pages, log_id, stats,
                 requests, waits, last, runs, returned, calls, escaped>>

\* the ingest loop is over: the run is finalized as completed with the
\* counters of self.stats, and self.stats is returned
Finish ==
  /\ pc = "process"
  /\ idx > Len(items)
  /\ kind = "committees" => chamber = Len(Chambers)
  /\ sync_log' = update_sync_log(sync_log, log_id, "completed", stats.processed,
                                 stats.created, stats.updated, stats.failed,
                                 None, now)
  /\ now' = now + 1
  /\ returned' = Append(returned, stats)
  /\ calls' = Append(calls, Call("update_sync_log", "ingest", chamber, TRUE))
  /\ pc' = "idle"
  /\ UNCHANGED <<built, session, db, kind, chamber, endpoint, max_pages, log_id, stats,
                 all_items, page, next_url, items, idx, requests, waits,
                 served, last, runs, escaped>>

\* the ingest loop is over and the update_sync_log of the completed run
\* raises: the statement is rolled back, the outer except branch finalizes the
\* run as failed with str(e) and the default counters, and self.stats is
\* returned; when that statement raises too, its exception reaches the caller
FinishRaises ==
  /\ pc = "process"
  /\ idx > Len(items)
  /\ kind = "committees" => chamber = Len(Chambers)
  /\ \E ok \in BOOLEAN :
       /\ calls' = calls \o <<Call("update_sync_log", "ingest", chamber, FALSE),
                               Call("update_sync_log", "ingest", chamber, ok)>>
       /\ IF ok
          THEN /\ sync_log' = update_sync_log(sync_log, log_id, "failed", 0, 0, 0, 0,
                                              StoreError, now)
               /\ now' = now + 1
               /\ returned' = Append(returned, stats)
               /\ UNCHANGED escaped
          ELSE /\ escaped' = Append(escaped, StoreError)
               /\ UNCHANGED <<sync_log, now, returned>>
  /\ pc' = "idle"
  /\ UNCHANGED <<built, session, db, kind, chamber, endpoint, max_pages, log_id, stats,
                 all_items, page, next_url, items, idx, requests, waits,
                 served, last, runs>>

\* one invocation of any ingest operation, any page cap
Next ==
  \/ /\ runs = 0
     /\ \E k \in Kinds : \E args \in ArgsOf(k), cap \in Caps :
          StartIngest(k, args, cap) \/ StartIngestRaises(k, args, cap)
  \/ FetchPage(MaxPageLen, MaxServerPages)
  \/ ProcessItem
  \/ NextChamber
  \/ Finish
  \/ FinishRaises

Spec == Init /\ [][Next]_vars

\* invocations one after the other on the same ingestor and store, without a
\* page cap, the API serving each endpoint as one page of at most one item
NextRuns ==
  \/ /\ runs < MaxRuns
     /\ \E k \in Kinds : \E args \in ArgsOf(k) : StartIngest(k, args, << >>)
  \/ FetchPage(1, 1)
  \/ ProcessItem
  \/ NextChamber
  \/ Finish

SpecRuns == Init /\ [][NextRuns]_vars

\* invocations of ingest_bills and ingest_committees one after the other
\* against a store whose statements on the sync log may fail, the API serving
\* each endpoint as one page of at most one item
NextFaults ==
  \/ /\ runs < MaxRuns
     /\ \E k \in {"bills", "committees"} : \E args \in ArgsOf(k) :
          StartIngest(k, args, << >>) \/ StartIngestRaises(k, args, << >>)
  \/ FetchPage(1, 1)
  \/ ProcessItem
  \/ NextChamber
  \/ Finish
  \/ FinishRaises

SpecFaults == Init /\ [][NextFaults]_vars

\* one invocation of any ingest operation, any page cap, against an API that
\* serves pages of at most one item and a store whose statements on the sync
\* log may fail
NextBatch ==
  \/ /\ runs = 0
     /\ \E k \in Kinds : \E args \in ArgsOf(k), cap \in Caps :
          StartIngest(k, args, cap) \/ StartIngestRaises(k, args, cap)
  \/ FetchPage(1, MaxServerPages)
  \/ ProcessItem
  \/ NextChamber
  \/ Finish
  \/ FinishRaises

SpecBatch == Init /\ [][NextBatch]_vars

\* the numbers of the four bills of the end-to-end scenario
ScenarioNumbers == {"1", "2", "3", "4"}

\* a list item of bill/118/hr: with its title, or abbreviated to its self link
ScenarioBill(n, titled) ==
  IF titled
  THEN [congress |-> "118", type |-> "hr", number |-> n, title |-> "T",
        updateDate |-> "2024-01-01", url |-> <<BaseUrl, "bill/118/hr/", n>>]
  ELSE [congress |-> "118", type |-> "hr", number |-> n,
        updateDate |-> "2024-01-01", url |-> <<BaseUrl, "bill/118/hr/", n>>]

\* the numbers of the bills on the first page served
ScenarioUsed ==
  IF served = << >> THEN {}
  ELSE {served[1].data.bills[i].number : i \in DOMAIN served[1].data.bills}

\* the API of the scenario: a first page of two bills with a next cursor, then
\* a last page of the two other bills, exactly one of them without its title
ScenarioResponses ==
  IF served = << >>
  THEN {Returned(200, PageBody("bills",
                               <<ScenarioBill(a, TRUE), ScenarioBill(b, TRUE)>>,
                               Cursor(endpoint, 1))) :
          a \in ScenarioNumbers, b \in ScenarioNumbers}
  ELSE {Returned(200, PageBody("bills",
                               <<ScenarioBill(a, t), ScenarioBill(b, ~t)>>,
                               << >>)) :
          a \in ScenarioNumbers \ ScenarioUsed,
          b \in ScenarioNumbers \ ScenarioUsed,
          t \in BOOLEAN}

\* the bills of a page of the scenario are distinct
ScenarioPage(resp) == resp.data.bills[1].number # resp.data.bills[2].number

FetchScenarioPage ==
  FetchPageFrom({resp \in ScenarioResponses : ScenarioPage(resp)})

\* ingest_bills(congress=118, bill_type='hr') into an empty store against the
\* API of the scenario
NextScenario ==
  \/ /\ runs = 0
     /\ StartIngest("bills", [NoArgs EXCEPT !.congress = "118", !.bill_type = "hr"],
                    << >>)
  \/ FetchScenarioPage
  \/ ProcessItem
  \/ Finish

SpecScenario == Init /\ [][NextScenario]_vars

\* the invocation up to the return of _fetch_paginated, for any ingest
\* operation and any page cap
NextFetch ==
  \/ /\ runs = 0
     /\ \E k \in Kinds : \E args \in ArgsOf(k), cap \in Caps : StartIngest(k, args, cap)
  \/ FetchPage(MaxPageLen, MaxServerPages)

SpecFetch == Init /\ [][NextFetch]_vars

\* the titles a bill list item comes with: none, null, empty, or a title
DetailTitles ==
  {[x \in {} |-> None], [title |-> None], [title |-> ""], [title |-> "T"]}

\* the self links a bill list item comes with: none, null, empty, the API
\* base alone, or the URL of the bill
DetailUrls ==
  {[x \in {} |-> None], [url |-> NullUrl], [url |-> << >>], [url |-> <<BaseUrl>>],
   [url |-> <<BaseUrl, "bill/118/hr/7">>]}

\* the list items of bill 118/hr/7 in every combination of title and self link
DetailPool ==
  {[congress |-> "118", type |-> "hr", number |-> "7"] @@ t @@ u :
     t \in DetailTitles, u \in DetailUrls}

\* ingest_bills against an API that serves one page of up to two of these items
NextDetail ==
  \/ /\ runs = 0
     /\ \E args \in ArgsOf("bills") : StartIngest("bills", args, << >>)
  \/ FetchPageFrom({Returned(200, PageBody(kind, its, << >>)) :
                      its \in SeqUpTo(DetailPool, 2)})
  \/ ProcessItem
  \/ Finish

SpecDetail == Init /\ [][NextDetail]_vars

\* the elements of a laws list: two laws, and one without its number
LawPool ==
  {[number |-> "118-5", type |-> "Public Law"],
   [number |-> "118-6", type |-> "Private Law"],
   [type |-> "Public Law"]}

\* the laws a bill payload comes with: no key, or a list of up to MaxLaws
LawLists ==
  {[x \in {} |-> None]} \cup {[laws |-> xs] : xs \in SeqUpTo(LawPool, MaxLaws)}

\* the payloads of bill 118/hr/9 with each of these
LawBills ==
  {[congress |-> "118", type |-> "hr", number |-> "9", title |-> "T9"] @@ l :
     l \in LawLists}

\* ingest_bills against an API that serves one page of up to two of these
\* payloads, the second stored over the first
NextLaws ==
  \/ /\ runs = 0
     /\ \E args \in ArgsOf("bills") : StartIngest("bills", args, << >>)
  \/ FetchPageFrom({Returned(200, PageBody(kind, its, << >>)) :
                      its \in SeqUpTo(LawBills, 2)})
  \/ ProcessItem
  \/ Finish

SpecLaws == Init /\ [][NextLaws]_vars

\* what no step of execute_sql touches
IngestorVars ==
  <<sync_log, pc, kind, chamber, endpoint, max_pages, log_id, stats, all_items,
    page, next_url, items, idx, requests, waits, served, last, runs, returned,
    calls, escaped, built>>

\* the transaction ends without its work
rollback_keeps_work(store, work) == work

\* session.rollback(): the uncommitted work of the session is discarded, the
\* store stays as it was committed
rollback(store, work) == store

\* session.commit(): the work of the session becomes the store
commit(store, work) == work

\* execute_sql is entered with the upsert of insert_<k>(data): get_session
\* creates the session, whose transaction begins on the store as it is
OpenSession(k, data) ==
  /\ pc = "idle"
  /\ runs = 0
  /\ session.at \in {"none", "closed"}
  /\ session.n < MaxStatements
  /\ ~ParamsRaise(k, data)
  /\ session' = [at |-> "open", n |-> session.n + 1, kind |-> k, data |-> data,
                 before |-> db, work |-> db, result |-> << >>, exc |-> << >>,
                 closed |-> FALSE, raised |-> << >>]
  /\ UNCHANGED <<db, now>>
  /\ UNCHANGED IngestorVars

\* session.execute(text(sql), params) and the list of its rows: the statement
\* is refused, or the connection fails, or the statement takes effect in the
\* transaction of the session
ExecuteStatement ==
  /\ session.at = "open"
  /\ \/ /\ StoreRejects(KeyCols(session.kind), Params(session.kind, session.data))
        /\ session' = [session EXCEPT !.at = "except",
                                      !.exc = <<"null value in column violates not-null constraint">>]
        /\ UNCHANGED now
     \/ /\ session' = [session EXCEPT !.at = "except", !.exc = <<StoreError>>]
        /\ UNCHANGED now
     \/ /\ ~StoreRejects(KeyCols(session.kind), Params(session.kind, session.data))
        /\ LET u == Upsert(session.work[session.kind], KeyCols(session.kind),
                           UpdateCols(session.kind),
                           Params(session.kind, session.data), now)
           IN session' = [session EXCEPT !.at = "executed",
                                         !.work = [@ EXCEPT ![session.kind] = u.table],
                                         !.result = <<u.id>>]
        /\ now' = now + 1
  /\ UNCHANGED db
  /\ UNCHANGED IngestorVars

\* the with block is left without an exception: session.commit(), which
\* succeeds or raises
CommitSession ==
  /\ session.at = "executed"
  /\ \/ /\ db' = commit(db, session.work)
        /\ session' = [session EXCEPT !.at = "finally"]
     \/ /\ session' = [session EXCEPT !.at = "except", !.exc = <<StoreError>>]
        /\ UNCHANGED db
  /\ UNCHANGED now
  /\ UNCHANGED IngestorVars

\* except Exception: session.rollback(); raise
RollbackSession ==
  /\ session.at = "except"
  /\ db' = rollback(db, session.work)
  /\ session' = [session EXCEPT !.at = "finally", !.work = rollback(db, session.work)]
  /\ UNCHANGED now
  /\ UNCHANGED IngestorVars

\* finally: session.close(); execute_sql returns its rows or lets the
\* exception through to its caller
CloseSession ==
  /\ session.at = "finally"
  /\ session' = [session EXCEPT !.at = "closed", !.closed = TRUE,
                                !.raised = session.exc]
  /\ UNCHANGED <<db, now>>
  /\ UNCHANGED IngestorVars

\* calls of execute_sql with the upsert of any item, one after the other
NextSession ==
  \/ \E k \in Kinds : \E data \in Pool(k) : OpenSession(k, data)
  \/ ExecuteStatement
  \/ CommitSession
  \/ RollbackSession
  \/ CloseSession

SpecSession == Init /\ [][NextSession]_vars

\* a page count above every cap a caller passes: from there on the condition
\* page < max_pages reads every count alike
PageTop == MaxServerPages + 1

\* what client.get may answer to the page request for url of an API whose
\* cursor never ends: a failure, a last page, or a page that carries a cursor
\* once more, other than the one just followed, with an item as long as the
\* accumulator acc holds none
EndlessResponses(k, ep, url, acc) ==
  {Raised("connection reset"), Returned(500, ErrorBody)}
    \cup {Returned(200, PageBody(k, its, << >>)) : its \in SeqUpTo(Pool(k), 1)}
    \cup {Returned(200, PageBody(k, its,
                                 IF url = Cursor(ep, 1) THEN Cursor(ep, 2)
                                 ELSE Cursor(ep, 1))) :
            its \in {x \in SeqUpTo(Pool(k), 1) : Len(acc) + Len(x) <= 1}}

\* one iteration of the while loop of _fetch_paginated as in FetchPageFrom,
\* without the record of its requests, waits and calls, and with the page
\* count kept up to PageTop
FetchPageUntraced(resps) ==
  /\ pc = "fetch"
  /\ \E resp \in resps :
       IF resp.raised \/ resp.status # 200
       THEN /\ pc' = "process"
            /\ items' = return_all_items(all_items)
            /\ idx' = 1
            /\ UNCHANGED <<all_items, page, next_url>>
       ELSE /\ all_items' = extend(all_items, extract_items(resp.data))
            /\ next_url' = next_of(resp.data)
            /\ page' = IF page < PageTop THEN page + 1 ELSE page
            /\ IF loop_cond(next_of(resp.data), page + 1, max_pages)
               THEN UNCHANGED <<pc, items, idx>>
               ELSE /\ pc' = "process"
                    /\ items' =
                         return_all_items(extend(all_items, extract_items(resp.data)))
                    /\ idx' = 1
  /\ UNCHANGED <<built, session, db, sync_log, now, kind, chamber, endpoint, max_pages,
                 log_id, stats, last, runs, returned, escaped, requests, waits,
                 served, calls>>

\* one invocation of any ingest operation, any page cap, against an API whose
\* cursor may never end and a store whose statements succeed
NextLive ==
  \/ /\ runs = 0
     /\ \E k \in Kinds : \E args \in ArgsOf(k), cap \in Caps : StartIngest(k, args, cap)
  \/ FetchPageUntraced(EndlessResponses(kind, endpoint, next_url, all_items))
  \/ ProcessItem
  \/ NextChamber
  \/ Finish

\* the invocation is made, and once made it runs on: every call returns
SpecLive == Init /\ [][NextLive]_vars /\ WF_vars(NextLive)

\* a payload with no key
EmptyPayload == [x \in {} |-> PyNone]

\* the payloads that give key one of vals, or do not give it
Maybe(key, vals) == {EmptyPayload} \cup {key :> v : v \in vals}

SponsorPayloads ==
  {[bioguideId |-> JStr("B000944"), fullName |-> JStr("Sen. Brown, Sherrod [D-OH]"),
    party |-> JStr("D")],
   [bioguideId |-> JStr("C001"), firstName |-> JStr("Ann"), district |-> JInt("7")],
   [bioguideId |-> JStr("D002"), lastName |-> JStr("Doe"), district |-> JStr("25")]}

\* the sponsor lists given: absent, or up to MaxSponsors sponsors
SponsorLists ==
  {EmptyPayload}
    \cup {"sponsors" :> JList(xs) : xs \in SeqUpTo(SponsorPayloads, MaxSponsors)}

BillPayloads ==
  {a @@ b @@ c @@ d @@ e @@ f @@ g :
     a \in Maybe("congress", {JInt("118"), JStr("118")}),
     b \in Maybe("type", {JStr("hr"), JInt("7")}),
     c \in Maybe("number", {JInt("1234"), JStr("1234")}),
     d \in Maybe("title", {JStr("Test Bill")}),
     e \in Maybe("originChamber", {JStr("House")}),
     f \in SponsorLists,
     g \in Maybe("cosponsorsCount", {JInt("25"), JStr("many")})}

MemberPayloads ==
  {a @@ b @@ c @@ d @@ e :
     a \in Maybe("bioguideId", {JStr("B000944")}),
     b \in Maybe("firstName", {JStr("Sherrod")}),
     c \in Maybe("party", {JStr("D")}),
     d \in Maybe("state", {JStr("OH")}),
     e \in Maybe("birthYear", {JInt("1952"), JStr("1952")})}

AmendmentPayloads ==
  {a @@ b @@ c @@ d @@ e @@ f :
     a \in Maybe("congress", {JInt("118")}),
     b \in Maybe("type", {JStr("hamdt")}),
     c \in Maybe("number", {JInt("1234"), JStr("1234")}),
     d \in Maybe("purpose", {JStr("To amend the bill")}),
     e \in Maybe("chamber", {JStr("House")}),
     f \in SponsorLists}

CommitteePayloads ==
  {a @@ b @@ c @@ d :
     a \in Maybe("systemCode", {JStr("hsgo00")}),
     b \in Maybe("name", {JStr("Oversight and Reform"), JInt("7")}),
     c \in Maybe("chamber", {JStr("House")}),
     d \in Maybe("type", {JStr("Standing")})}

\* the payloads handed to the constructor of each model class
Payloads(cls) ==
  CASE cls = "Bill" -> BillPayloads
    [] cls = "Member" -> MemberPayloads
    [] cls = "Amendment" -> AmendmentPayloads
    [] cls = "Committee" -> CommitteePayloads
    [] cls = "Sponsor" -> SponsorPayloads \cup {EmptyPayload}

\* cls(**payload), once
ConstructModel(cls, payload) ==
  /\ built = NoBuilt
  /\ built' = [cls |-> cls, raw |-> payload, out |-> Construct(cls, payload)]
  /\ UNCHANGED <<session, db, sync_log, now, pc, kind, chamber, endpoint, max_pages,
                 log_id, stats, all_items, page, next_url, items, idx, requests,
                 waits, served, last, runs, returned, calls, escaped>>

\* the model classes constructed from any payload
NextModels ==
  \E cls \in ModelClasses : \E payload \in Payloads(cls) : ConstructModel(cls, payload)

SpecModels == Init /\ [][NextModels]_vars

\* ------------------------------------------------------------------ claims
\* the row of the sync log the current invocation began
RunRow == sync_log[log_id]

\* the rows of the current kind that bear the natural key of data
RowsOf(data) == Hit(db[kind], KeyCols(kind), Params(kind, data))

\* a bill list item that needs no detail request and has its natural key
PlainBill(item) ==
  /\ DetailEndpoint("bills", item) = << >>
  /\ ~StoreRejects(BillKey, BillParams(item))

\* no statement on the sync log has raised in the current invocation
NoStoreFault ==
  \A i \in DOMAIN calls :
    calls[i].op \in {"log_sync", "update_sync_log"} => calls[i].ok

\* the step handles one item of the ingest loop
HandlesItem == pc = "process" /\ idx' = idx + 1

\* C1: a batch of 3 bill items of which item 2 lacks a natural-key field ends
\* with processed = 3, failed = 1 and exactly one error, items 1 and 3
\* persisted and item 2 not, and the run finalized as completed.
C1_PartialFailureIsolation ==
  (/\ pc = "idle"
   /\ Len(returned) = 1
   /\ NoStoreFault
   /\ kind = "bills"
   /\ Len(items) = 3
   /\ PlainBill(items[1])
   /\ DetailEndpoint("bills", items[2]) = << >>
   /\ StoreRejects(BillKey, BillParams(items[2]))
   /\ PlainBill(items[3]))
  => /\ returned[1].processed = 3
     /\ returned[1].failed = 1
     /\ Len(returned[1].errors) = 1
     /\ RowsOf(items[1]) # {}
     /\ RowsOf(items[3]) # {}
     /\ \A r \in db["bills"] : r.raw_data # dumps(items[2])
     /\ RunRow.status = "completed"

\* C2: an item stored under a natural key not yet in the table increments
\* created and not updated, an item stored under a key already in the table
\* increments updated and not created, and the indicator the ingest loop
\* reads from the store's return value differs between the two.
C2_CreateUpdateDistinction ==
  [][(HandlesItem /\ last'.ret # << >>) =>
       IF RowsOf(last'.data) = {}
       THEN /\ stats'.created = stats.created + 1
            /\ stats'.updated = stats.updated
            /\ TruthyId(last'.ret)
       ELSE /\ stats'.updated = stats.updated + 1
            /\ stats'.created = stats.created
            /\ ~TruthyId(last'.ret)]_vars

\* C3: every table holds at most one row per natural key, and an item that
\* was stored leaves exactly one row for its key.
C3_OneRowPerNaturalKey ==
  /\ \A k \in Kinds : \A r1, r2 \in db[k] :
       (\A c \in KeyCols(k) : r1[c] = r2[c]) => r1 = r2
  /\ last.ret # << >> => Cardinality(RowsOf(last.data)) = 1

\* an item was stored under a key that was in the table already
C3_Witness ==
  /\ last.existed
  /\ last.ret # << >>
  /\ Cardinality(RowsOf(last.data)) = 1

\* C4: after an upsert under a natural key that was already stored, every
\* non-key column of the row holds the value derived from the incoming payload.
C4_UpsertOverwritesAllMutable ==
  (last.existed /\ last.ret # << >>) =>
    \A r \in RowsOf(last.data) :
      \A c \in DOMAIN Params(kind, last.data) \ KeyCols(kind) :
        r[c] = Params(kind, last.data)[c]

\* C5: every step keeps every row, with its id, its natural-key columns and
\* its created_at unchanged.
C5_KeyAndCreationImmutable ==
  [][\A k \in Kinds : \A r \in db[k] : \E r2 \in db'[k] :
       /\ r2.id = r.id
       /\ r2.created_at = r.created_at
       /\ \A c \in KeyCols(k) : r2[c] = r[c]]_vars

\* a row was updated by a later upsert under its key
C5_Witness ==
  \E k \in Kinds : \E r \in db[k] : r.updated_at # r.created_at

\* the answer is a page of items
IsPage(resp) == ~resp.raised /\ resp.status = 200

\* the item list of each answer of the current fetch, none for a failed request
ServedItems ==
  [i \in 1..Len(served) |-> IF IsPage(served[i]) THEN served[i].data[kind] ELSE << >>]

\* the cursor of each answer of the current fetch
ServedNext(i) == IF IsPage(served[i]) THEN next_of(served[i].data) ELSE << >>

\* C6: without a page cap, when every answer is a page, the fetch has
\* requested the first URL and then each cursor served, once each, the last
\* page alone carries no cursor, and the list returned is the concatenation of
\* the pages' item lists in page order.
C6_FetchConcatenatesAllPages ==
  (/\ pc = "process"
   /\ max_pages = << >>
   /\ \A i \in 1..Len(served) : IsPage(served[i]))
  => /\ served # << >>
     /\ \A i \in 1..Len(served) : (ServedNext(i) = << >>) <=> (i = Len(served))
     /\ requests =
          [i \in 1..Len(served) |->
             IF i = 1 THEN first_url(endpoint) ELSE ServedNext(i - 1)]
     /\ \A i, j \in 1..Len(requests) : requests[i] = requests[j] => i = j
     /\ all_items = Concat(ServedItems)
     /\ items = all_items

\* two pages, both with items, were fetched without a cap
C6_Witness ==
  /\ pc = "process"
  /\ max_pages = << >>
  /\ Len(served) = 2
  /\ \A i \in 1..Len(served) : IsPage(served[i]) /\ served[i].data[kind] # << >>

\* C7: with max_pages = k the fetch issues at most k page requests and the
\* list it returns holds only the items of the pages among the first k; with
\* k = 0 it issues no request and returns the empty list.
C7_PageCapBoundsRequests ==
  max_pages # << >> =>
    /\ Len(requests) <= max_pages[1]
    /\ Len(served) <= max_pages[1]
    /\ page <= max_pages[1]
    /\ pc = "process" => (all_items = Concat(ServedItems) /\ items = all_items)
    /\ max_pages[1] = 0 => (pc = "process" /\ requests = << >> /\ items = << >>)

\* the fetch stopped at the cap although the last page carried a cursor
C7_Witness ==
  /\ pc = "process"
  /\ max_pages # << >>
  /\ Len(served) = max_pages[1]
  /\ Len(served) > 0
  /\ IsPage(served[Len(served)])
  /\ ServedNext(Len(served)) # << >>
  /\ all_items # << >>

\* C9: when the store refuses the statement of an item, failed is incremented
\* and a message is appended to the errors, and none of processed, created and
\* updated is incremented.
C9_PersistenceErrorIsItemFailure ==
  [][(HandlesItem /\ last'.rejected) =>
       /\ stats'.failed = stats.failed + 1
       /\ Len(stats'.errors) = Len(stats.errors) + 1
       /\ stats'.processed = stats.processed
       /\ stats'.created = stats.created
       /\ stats'.updated = stats.updated]_vars

\* C10: when the detail request of an item raises or is answered with a
\* non-success status, failed is incremented, a message is appended to the
\* errors, the item is not counted as processed, and the loop goes on.
C10_DetailFailureIsItemFailure ==
  [][(HandlesItem /\ last'.detail \in {"raised", "error"}) =>
       /\ stats'.failed = stats.failed + 1
       /\ Len(stats'.errors) = Len(stats.errors) + 1
       /\ stats'.processed = stats.processed
       /\ pc' = "process"]_vars

\* the positions of the calls of op in the trace of the current invocation
CallsOf(op) == {i \in DOMAIN calls : calls[i].op = op}

\* the current invocation is over
Ended == pc = "idle" /\ runs > 0

\* C11: the trace of an invocation begins with its one log_sync, holds no
\* update_sync_log while the invocation fetches and stores, and, once the
\* invocation is over, ends with its one update_sync_log, which has finalized
\* the run the invocation began.
C11_OneBeginOneFinish ==
  /\ calls # << >> => CallsOf("log_sync") = {1}
  /\ ~Ended => CallsOf("update_sync_log") = {}
  /\ Ended => /\ CallsOf("update_sync_log") = {Len(calls)}
              /\ calls[1].ok
              /\ calls[Len(calls)].ok
              /\ log_id \in DOMAIN sync_log
              /\ RunRow.status \in {"completed", "failed"}

\* the statuses of a sync-log row
Statuses == {"running", "completed", "failed"}

\* the step keeps every row of the sync log, moves a status only from running
\* to completed or failed, touches only the row the current invocation began,
\* and any row it adds is running
LogStep ==
  /\ Len(sync_log') \in {Len(sync_log), Len(sync_log) + 1}
  /\ \A i \in DOMAIN sync_log' : sync_log'[i].status \in Statuses
  /\ \A i \in DOMAIN sync_log :
       /\ sync_log'[i].id = sync_log[i].id
       /\ sync_log'[i].status # sync_log[i].status =>
            /\ sync_log[i].status = "running"
            /\ sync_log'[i].status \in {"completed", "failed"}
       /\ sync_log'[i] # sync_log[i] =>
            /\ runs' = runs
            /\ i = log_id
            /\ i = Len(sync_log)
  /\ \A i \in DOMAIN sync_log' \ DOMAIN sync_log : sync_log'[i].status = "running"

C13_CountersEqualReturnedStats ==
  (/\ Ended
   /\ returned # << >>
   /\ log_id \in DOMAIN sync_log
   /\ RunRow.status \in {"completed", "failed"})
  => /\ RunRow.records_processed = returned[Len(returned)].processed
     /\ RunRow.records_created = returned[Len(returned)].created
     /\ RunRow.records_updated = returned[Len(returned)].updated
     /\ RunRow.records_failed = returned[Len(returned)].failed

\* C14: when a page request raises or is answered with a non-success status,
\* _fetch_paginated has made no request after it and has requested no URL
\* twice, every answer before it was a page, nothing is raised to the caller,
\* and the list returned is the concatenation of the pages before it.
C14_PageFailureStopsPagination ==
  \A n \in DOMAIN served :
    ~IsPage(served[n]) =>
      /\ n = Len(served)
      /\ pc = "process"
      /\ Len(requests) = n
      /\ \A i, j \in DOMAIN requests : requests[i] = requests[j] => i = j
      /\ escaped = << >>
      /\ all_items = Concat(ServedItems)
      /\ items = all_items

\* the second page request failed after a first page with items
C14_Witness ==
  /\ pc = "process"
  /\ Len(served) = 2
  /\ IsPage(served[1])
  /\ served[1].data[kind] # << >>
  /\ ~IsPage(served[2])
  /\ items = served[1].data[kind]

\* C15: every client.get of an invocation, of a page or of a detail, comes
\* right after a sleep of its own, so that the k-th request has at least k
\* waits before it.
C15_WaitBeforeEveryRequest ==
  /\ \A i \in CallsOf("get") : i - 1 \in CallsOf("sleep")
  /\ \A i \in CallsOf("get") :
       Cardinality({j \in CallsOf("sleep") : j < i})
         >= Cardinality({j \in CallsOf("get") : j <= i})
  /\ Cardinality(CallsOf("get")) = Len(requests)
  /\ Cardinality(CallsOf("sleep")) = waits

\* page requests and a detail request were made in one invocation
C15_Witness ==
  /\ Cardinality({i \in CallsOf("get") : calls[i].by = "_fetch_paginated"}) >= 2
  /\ \E i \in CallsOf("get") : calls[i].by = "ingest"

\* the positions of the requests made by the function by
GetsBy(by) == {i \in CallsOf("get") : calls[i].by = by}

\* C16: in the scenario the row of the run is running until the invocation is
\* over; when no request raised, the invocation has made two page requests
\* and one detail request, has returned processed = 4, created = 4 and
\* failed = 0, has stored four bills, and its row is completed with
\* records_processed = 4.
C16_EndToEndScenario ==
  /\ pc \in {"fetch", "process"} => RunRow.status = "running"
  /\ (Ended /\ \A i \in CallsOf("get") : calls[i].ok) =>
       /\ Cardinality(GetsBy("_fetch_paginated")) = 2
       /\ Cardinality(GetsBy("ingest")) = 1
       /\ Len(requests) = 3
       /\ Len(returned) = 1
       /\ returned[1].processed = 4
       /\ returned[1].created = 4
       /\ returned[1].failed = 0
       /\ Cardinality(db["bills"]) = 4
       /\ RunRow.status = "completed"
       /\ RunRow.records_processed = 4

\* the scenario has run to its end, the abbreviated bill stored with the
\* title its detail carries
C16_Witness ==
  /\ Ended
  /\ \A i \in CallsOf("get") : calls[i].ok
  /\ Len(requests) = 3
  /\ returned = <<stats>>
  /\ stats.processed = 4
  /\ \E r \in db["bills"] : r.title = "Detail title"
  /\ RunRow.status = "completed"

\* the calls of insert_committee made in the chamber scope
InsertsIn(scope) == {i \in CallsOf("insert") : calls[i].scope = scope}

\* C17: ingest_committees begins one run; its calls for the house all come
\* before its calls for the senate; the senate fetch is entered only when
\* every house item has been handled, and the run is finalized only when
\* every senate item has been handled, with counters that are the sums over
\* both chambers; however the house fetch ended, the senate is fetched.
C17_TwoChambersOneRun ==
  /\ [](kind = "committees" /\ calls # << >> /\ calls[1].ok =>
         /\ CallsOf("log_sync") = {1}
         /\ Len(sync_log) = 1
         /\ \A i, j \in DOMAIN calls : i < j => calls[i].scope <= calls[j].scope
         /\ stats.processed + stats.failed
              = Cardinality(InsertsIn(1)) + Cardinality(InsertsIn(2))
         /\ Ended =>
              /\ Chambers[chamber] = "senate"
              /\ max_pages # <<0>> =>
                   \E i \in GetsBy("_fetch_paginated") : calls[i].scope = 2
              /\ NoStoreFault =>
                   /\ RunRow.status = "completed"
                   /\ RunRow.records_processed
                        = Cardinality(InsertsIn(1)) + Cardinality(InsertsIn(2))
                   /\ RunRow.records_failed = stats.failed
                   /\ RunRow.records_created + RunRow.records_updated
                        = RunRow.records_processed)
  /\ [][kind = "committees" /\ runs' = runs =>
         /\ chamber' # chamber =>
              /\ pc = "process"
              /\ idx = Len(items) + 1
              /\ Cardinality(InsertsIn(1)) = Len(items)
              /\ InsertsIn(2) = {}
         /\ (pc = "process" /\ pc' = "idle") =>
              /\ idx = Len(items) + 1
              /\ Cardinality(InsertsIn(2)) = Len(items)]_vars

\* the house fetch ended early on a failed second page, and the run was
\* finalized with the house item and the senate item
C17_Witness ==
  /\ kind = "committees"
  /\ Ended
  /\ NoStoreFault
  /\ \E i \in GetsBy("_fetch_paginated") : calls[i].scope = 1 /\ ~calls[i].ok
  /\ InsertsIn(1) # {}
  /\ InsertsIn(2) # {}
  /\ RunRow.records_processed = 2

\* C19: an invocation in which log_sync or the update_sync_log of the
\* completed run raised is over with its run finalized as failed, the row
\* carrying the message of the exception, and with no exception passed on to
\* the caller.
C19_FatalErrorFinalizesFailed ==
  (Ended /\ ~NoStoreFault) =>
    /\ log_id \in DOMAIN sync_log
    /\ RunRow.status = "failed"
    /\ RunRow.error_message = StoreError
    /\ escaped = << >>

\* C20: while an invocation fetches and stores, the row of its run is
\* running; the step that handles the item at idx is the only one that writes
\* to the tables, it handles the items in fetch order, a stored item is in
\* its table at the end of the step, and no step removes or changes a row
\* other than the one under the key of the item it stores, whether the item
\* is stored or fails.
C20_PrefixPersistedWhileRunning ==
  [][/\ pc \in {"fetch", "process"} => RunRow.status = "running"
     /\ ~HandlesItem => db' = db
     /\ HandlesItem =>
          /\ last'.item = items[idx]
          /\ \A k \in Kinds \ {kind} : db'[k] = db[k]
          /\ last'.ret = << >> => db' = db
          /\ last'.ret # << >> =>
               /\ \A r \in db[kind] \ RowsOf(last'.data) : r \in db'[kind]
               /\ \E r \in db'[kind] :
                    /\ r.id = last'.ret[1]
                    /\ \A c \in KeyCols(kind) : r[c] = Params(kind, last'.data)[c]
                    /\ r.updated_at = now
                    /\ db'[kind] \ db[kind] = {r}]_vars

\* an item the store refused was handled after an item that was stored, and
\* the row of the stored item is in its table, the run still running
C20_Witness ==
  /\ pc = "process"
  /\ kind = "bills"
  /\ idx = 3
  /\ last.rejected
  /\ PlainBill(items[1])
  /\ \E r \in RowsOf(items[1]) : r.raw_data = dumps(items[1])
  /\ RunRow.status = "running"

RECURSIVE Holds(_, _, _, _)
\* the object obj built from the payload raw has the canonical names of cls
\* and, for each key raw gives under its alias, the value raw gives: a list
\* of models element by element in the same order, any other value as it is
\* (exact) or, for an int field, as the integer it denotes (not exact)
Holds(exact, cls, raw, obj) ==
  /\ DOMAIN obj = {f[1] : f \in Fields(cls)}
  /\ \A f \in Fields(cls) :
       f[2] \in DOMAIN raw =>
         CASE f[3] \in {"str", "any"} -> obj[f[1]] = raw[f[2]]
           [] f[3] = "int" ->
                IF exact THEN obj[f[1]] = raw[f[2]]
                ELSE obj[f[1]].ty = "int" /\ obj[f[1]].v = raw[f[2]].v
           [] OTHER ->
                /\ obj[f[1]].ty = "list"
                /\ Len(obj[f[1]].v) = Len(raw[f[2]].v)
                /\ \A i \in DOMAIN raw[f[2]].v :
                     Holds(exact, f[3], raw[f[2]].v[i], obj[f[1]].v[i])

\* C18: the object a model class builds from a payload keyed by the API's
\* names holds, under the canonical names, the values of the payload
\* unchanged, a list of sponsors parsed element by element in its order.
C18_ModelsKeepPayloadValues ==
  (built.cls # "none" /\ built.out.ok) =>
    Holds(TRUE, built.cls, built.raw, built.out.obj)

\* C18, amended: as C18, except that a string that reads as an integer, given
\* for an int field, is held as that integer.
C18_ModelsKeepPayloadValuesAmended ==
  (built.cls # "none" /\ built.out.ok) =>
    Holds(FALSE, built.cls, built.raw, built.out.obj)

\* a bill was built from a payload with its number given as a string and two
\* different sponsors
C18_Witness ==
  /\ built.cls = "Bill"
  /\ built.out.ok
  /\ built.raw.number = JStr("1234")
  /\ built.out.obj.bill_number = JInt("1234")
  /\ "sponsors" \in DOMAIN built.raw
  /\ Len(built.raw.sponsors.v) = 2
  /\ built.raw.sponsors.v[1] # built.raw.sponsors.v[2]
  /\ built.out.obj.sponsors.v[2].bioguide_id = built.raw.sponsors.v[2].bioguideId

\* the items the ingest loops of the current invocation have handled: those
\* passed to insert_<kind>, those whose detail request raised and those whose
\* detail endpoint could not be built
Handled ==
  Cardinality(CallsOf("insert")) + Cardinality(CallsOf("replace"))
    + Cardinality({i \in GetsBy("ingest") : ~calls[i].ok})

\* the current fetch ended on a request that raised or was refused
StoppedEarly == served # << >> /\ ~IsPage(served[Len(served)])

\* C21: when the fetch ended on a page request that raised or was answered
\* with a non-success status, nothing is raised to the caller, the ingest loop
\* runs over the items of the pages before it, and, the statements on the sync
\* log succeeding, the run is finalized as completed with the counters of
\* exactly those items, all zero when it was the first page that failed.
C21_EarlyStopStillCompletes ==
  StoppedEarly =>
    /\ pc # "fetch"
    /\ NoStoreFault => escaped = << >>
    /\ pc = "process" => items = Concat(ServedItems)
    /\ (Ended /\ NoStoreFault) =>
         /\ RunRow.status = "completed"
         /\ RunRow.error_message = None
         /\ items = Concat(ServedItems)
         /\ idx = Len(items) + 1
         /\ RunRow.records_processed = stats.processed
         /\ RunRow.records_created = stats.created
         /\ RunRow.records_updated = stats.updated
         /\ RunRow.records_failed = stats.failed
         /\ stats.processed + stats.failed = Handled
         /\ IF kind = "committees"
            THEN Cardinality(InsertsIn(Len(Chambers))) = Len(items)
            ELSE Handled = Len(items)
         /\ (Len(served) = 1 /\ kind # "committees") =>
              /\ RunRow.records_processed = 0
              /\ RunRow.records_created = 0
              /\ RunRow.records_updated = 0
              /\ RunRow.records_failed = 0
              /\ returned = <<ZeroStats>>
              /\ db = [k \in Kinds |-> {}]

\* the first page request of the house raised, the second page request of the
\* senate failed after a page with one committee, and the run was finalized
\* as completed with that one committee
C21_Witness ==
  /\ kind = "committees"
  /\ Ended
  /\ NoStoreFault
  /\ InsertsIn(1) = {}
  /\ \E i \in GetsBy("_fetch_paginated") : calls[i].scope = 1 /\ ~calls[i].ok
  /\ Len(served) = 2
  /\ IsPage(served[1])
  /\ ~IsPage(served[2])
  /\ Len(items) = 1
  /\ RunRow.status = "completed"
  /\ RunRow.records_processed + RunRow.records_failed = 1

\* the invocation is over with its run completed or failed
EndedFinalized ==
  Ended /\ log_id \in DOMAIN sync_log /\ RunRow.status \in {"completed", "failed"}

\* the fetch has no cap and holds a cursor
UncappedWithCursor == pc = "fetch" /\ max_pages = << >> /\ next_url # << >>

\* C22: every invocation, with or without a page cap and whatever the API
\* answers, is eventually over, and is over only with its run completed or
\* failed.
C22_EveryInvocationTerminates ==
  /\ [](Ended => EndedFinalized)
  /\ <>EndedFinalized

\* C22, amended: every invocation is eventually over with its run completed or
\* failed, unless it has no page cap and the API hands out a next cursor with
\* every page for ever, and then it stays in its fetch.
C22_EveryInvocationTerminatesAmended ==
  /\ [](Ended => EndedFinalized)
  /\ <>EndedFinalized \/ <>[]UncappedWithCursor

\* an invocation with a cap of two pages is over, its fetch cut off with the
\* cursor of the second page in hand
C22_Witness ==
  /\ EndedFinalized
  /\ max_pages = <<2>>
  /\ page = 2
  /\ next_url # << >>
  /\ RunRow.status = "completed"

\* the item has no non-empty title
Untitled(item) == ~Has(item, "title") \/ item.title \in {None, ""}

\* a detail path can be derived from the self link of the item: the link is
\* there and is more than the API base
Derivable(item) ==
  /\ Has(item, "url")
  /\ item.url # NullUrl
  /\ \E i \in DOMAIN item.url : item.url[i] # BaseUrl

\* C23: the step that handles a bill item makes a request, and a rate-limit
\* wait, exactly when the item has no non-empty title and a detail path can be
\* derived from its self link; otherwise it makes neither and passes the item
\* to the store as it is.
C23_DetailRequestIffNeeded ==
  [][(HandlesItem /\ kind = "bills") =>
       IF Untitled(items[idx]) /\ Derivable(items[idx])
       THEN /\ Len(requests') = Len(requests) + 1
            /\ waits' = waits + 1
       ELSE /\ requests' = requests
            /\ waits' = waits
            /\ calls' = Append(calls, Call("insert", "ingest", chamber, TRUE))
            /\ last'.data = items[idx]
            /\ last'.exc = << >>]_vars

\* C24: when the detail request of an item is answered with the entity, the
\* record passed to the store holds every field of the detail entity with the
\* detail's value and every field of the list item that the detail entity
\* lacks with the item's value.
C24_EnrichmentMerges ==
  [][(HandlesItem /\ last'.detail = "ok") =>
       LET item == items[idx]
           entity == DetailOf(kind, item)
       IN /\ \A f \in DOMAIN entity :
               Has(last'.data, f) /\ last'.data[f] = entity[f]
          /\ \A f \in DOMAIN item \ DOMAIN entity :
               Has(last'.data, f) /\ last'.data[f] = item[f]]_vars

\* the positions of the token tok in the URL url
TokensAt(url, tok) == {i \in DOMAIN url : url[i] = tok}

\* C25: the first page request of ingest_bills is one URL with a single "?",
\* the resolved bill path before it and, after it, limit, offset 0 and the
\* date filters given.
C25_FirstRequestWellFormed ==
  (kind = "bills" /\ requests # << >>) =>
    LET url == requests[1]
    IN /\ Cardinality(TokensAt(url, "?")) = 1
       /\ url[1] = "bill"
       /\ \A q \in TokensAt(url, "?") :
            /\ \E i \in TokensAt(url, "limit=250") : i > q
            /\ \E i \in TokensAt(url, "offset=0") : i > q
            /\ \A i \in TokensAt(url, "fromDateTime=") \cup TokensAt(url, "toDateTime=") :
                 i > q
            /\ \A i \in TokensAt(url, "/") : i < q

\* C26: the row of a bill that was stored has is_law true exactly when the
\* payload carries a non-empty laws list; then its law number and law type are
\* those of the first element of the list, and otherwise both are null.
C26_IsLawFromFirstLaw ==
  (kind = "bills" /\ last.ret # << >>) =>
    /\ RowsOf(last.data) # {}
    /\ \A r \in RowsOf(last.data) :
         IF Has(last.data, "laws") /\ Len(last.data.laws) > 0
         THEN /\ r.is_law = TRUE
              /\ r.law_number = Get(last.data.laws[1], "number")
              /\ r.law_type = Get(last.data.laws[1], "type")
         ELSE /\ r.is_law = FALSE
              /\ r.law_number = None
              /\ r.law_type = None

\* a payload with two different laws was stored over the row of a payload
\* with an empty laws list, and the row carries the first of the two
C26_Witness ==
  /\ kind = "bills"
  /\ idx = 3
  /\ last.existed
  /\ last.ret # << >>
  /\ Has(items[1], "laws")
  /\ items[1].laws = << >>
  /\ Has(last.data, "laws")
  /\ Len(last.data.laws) = 2
  /\ Get(last.data.laws[1], "number") # Get(last.data.laws[2], "number")
  /\ Get(last.data.laws[1], "type") # Get(last.data.laws[2], "type")
  /\ \E r \in RowsOf(last.data) :
       r.is_law /\ r.law_number = Get(last.data.laws[1], "number")

\* C27: an invocation starts with zeroed statistics; the stats it returns
\* count the items it has handled itself, whatever the invocations before it
\* counted; and no step changes the stats an earlier invocation returned.
C27_StatsFreshPerInvocation ==
  [][/\ runs' = runs + 1 => stats' = ZeroStats
     /\ \A i \in DOMAIN returned :
          i \in DOMAIN returned' /\ returned'[i] = returned[i]
     /\ Len(returned') = Len(returned) + 1 =>
          /\ returned'[Len(returned')] = stats
          /\ stats.processed + stats.failed = Handled
          /\ stats.failed = Len(stats.errors)]_vars

\* a second invocation has returned the count of its own one item, and the
\* stats the first returned still count the first's one item
C27_Witness ==
  /\ runs = 2
  /\ Ended
  /\ Len(returned) = 2
  /\ returned[1].processed = 1
  /\ returned[2].processed = 1
  /\ returned[2].failed = 0
  /\ Handled = 1

\* the items the ingest loops of the current invocation were given by the
\* fetches that are over: those of the house, once the senate is ingested, and
\* those of the current fetch
Fetched ==
  Len(items) + (IF kind = "committees" /\ chamber > 1
                THEN Cardinality(InsertsIn(1)) ELSE 0)

\* C28: between the steps of an invocation processed = created + updated, the
\* error list is as long as failed, and processed + failed is the number of
\* items handled so far; a run finalized as completed carries counters whose
\* processed + failed is the number of items the fetch returned.
C28_StatsArithmetic ==
  /\ stats.processed = stats.created + stats.updated
  /\ Len(stats.errors) = stats.failed
  /\ stats.processed + stats.failed = Handled
  /\ pc = "process" => stats.processed + stats.failed = Fetched - (Len(items) - (idx - 1))
  /\ (Ended /\ log_id \in DOMAIN sync_log /\ RunRow.status = "completed") =>
       /\ RunRow.records_processed + RunRow.records_failed = Fetched
       /\ RunRow.records_processed = RunRow.records_created + RunRow.records_updated
       /\ RunRow.records_processed = stats.processed
       /\ RunRow.records_failed = stats.failed

\* a run over two fetched items, one stored and one failed, was finalized as
\* completed
C28_Witness ==
  /\ Ended
  /\ kind # "committees"
  /\ Len(items) = 2
  /\ stats.processed = 1
  /\ stats.failed = 1
  /\ Len(stats.errors) = 1
  /\ RunRow.status = "completed"
  /\ RunRow.records_processed = 1
  /\ RunRow.records_failed = 1

\* the upsert of the statement of the session applied to the store it began on
SessionEffect ==
  Upsert(session.before[session.kind], KeyCols(session.kind),
         UpdateCols(session.kind), Params(session.kind, session.data), now - 1)

\* C29: a call of execute_sql that is over has closed its session; when it
\* returned, the store holds all the effects of its statement, and when its
\* statement or its commit raised, the store is as it was when the call began
\* and the exception has reached the caller; while the call is under way the
\* store holds none of its effects.
C29_TransactionPerOperation ==
  /\ session.at \in {"open", "executed", "except"} =>
       /\ db = session.before
       /\ ~session.closed
  /\ session.at = "closed" =>
       /\ session.closed
       /\ session.raised = session.exc
       /\ IF session.exc = << >>
          THEN /\ db = [session.before EXCEPT ![session.kind] = SessionEffect.table]
               /\ session.result = <<SessionEffect.id>>
          ELSE db = session.before

\* a second call, whose statement ran and whose commit raised, is over: its
\* session is closed, the exception has reached the caller, and the store
\* holds the row of the first call alone
C29_Witness ==
  /\ session.at = "closed"
  /\ session.n = 2
  /\ session.result # << >>
  /\ session.exc # << >>
  /\ session.raised = session.exc
  /\ session.closed
  /\ Cardinality(db[session.kind]) = 1
  /\ db = session.before
  /\ Hit(db[session.kind], KeyCols(session.kind),
         Params(session.kind, session.data)) = {}

\* the row r of the current kind bears the natural key of data
BearsKey(r, data) == \A c \in KeyCols(kind) : r[c] = Params(kind, data)[c]

\* C30: the step that passes an item to the store leaves the sync log and the
\* tables of the other kinds as they were; when the upsert fails it leaves
\* every table as it was; when it succeeds, every row that does not bear the
\* item's natural key is kept as it was, no such row appears, and at most one
\* row, bearing that key, is new or changed.
C30_UpsertChangesOneRow ==
  [][HandlesItem =>
       /\ sync_log' = sync_log
       /\ \A k \in Kinds \ {kind} : db'[k] = db[k]
       /\ IF last'.ret = << >>
          THEN db' = db
          ELSE /\ \A r \in db[kind] : ~BearsKey(r, last'.data) => r \in db'[kind]
               /\ \A r \in db'[kind] : ~BearsKey(r, last'.data) => r \in db[kind]
               /\ Cardinality(db'[kind] \ db[kind]) <= 1
               /\ Cardinality(db[kind] \ db'[kind]) <= 1
               /\ Cardinality(db'[kind]) >= Cardinality(db[kind])]_vars

\* a second invocation has stored a bill under a new key into the table that
\* held the row of the first, and that row is as the first invocation left it
C30_Witness ==
  /\ runs = 2
  /\ kind = "bills"
  /\ last.ret # << >>
  /\ ~last.existed
  /\ Cardinality(db["bills"]) = 2
  /\ \E r \in db["bills"] :
       /\ ~BearsKey(r, last.data)
       /\ r.updated_at = r.created_at
       /\ r.created_at < now - 1
  /\ Len(sync_log) = 2

====
